---- MODULE Spec2Model ----
(***************************************************************************)
(* Streamflow statistics and metrics of program_10.py: the metric library  *)
(* (CalcTqmean, CalcRBindex, Calc7Q, CalcExceed3TimesMedian), the loader   *)
(* (ReadData, ClipData), the water-year and monthly aggregators            *)
(* (GetAnnualStatistics, GetMonthlyStatistics) and the monthly reducer     *)
(* (GetMonthlyAverages).                                                   *)
(*                                                                         *)
(* Numbers are exact rationals <<n, d>> in lowest terms with d > 0; the    *)
(* float NaN is the empty tuple and an infinity is <<1, 0>> or <<-1, 0>>.  *)
(* A pandas Series of discharge is a sequence of records                   *)
(* [Date, Discharge], positions 1..Len standing for pandas' 0..len-1.      *)
(* A Date is a day ordinal of a calendar in which every month has          *)
(* DaysPerMonth days and a year has 12 months.                             *)
(***************************************************************************)
EXTENDS Integers, Sequences, FiniteSets, TLC

VARIABLES raw, DataDF, MissingValues, WYDataDF, MoDataDF, MonthlyAverages,
          Qvalues, result, pc, err

vars == <<raw, DataDF, MissingValues, WYDataDF, MoDataDF, MonthlyAverages,
          Qvalues, result, pc, err>>

(***************************************************************************)
(* Bounds of the model.                                                    *)
(***************************************************************************)
\* dates of a metric window are drawn from 1..MaxDay
MaxDay == 5
\* present discharge values of a metric window are drawn from 0..MaxQ
MaxQ == 3
\* a 7Q window holds dates from 1..(7 + ExtraDays)
ExtraDays == 1
\* present discharge values of a 7Q window are drawn from 1..MaxQ7
MaxQ7 == 2
\* days of a calendar month (every month is given the same number of days)
DaysPerMonth == 2
\* present discharge values of a raw record are drawn from -1..MaxRawQ
MaxRawQ == 1

(***************************************************************************)
(* Float arithmetic (numpy float64 semantics on exact rationals).          *)
(***************************************************************************)
NaN == << >>

isna(x) == x = NaN

Abs(n) == IF n < 0 THEN -n ELSE n

RECURSIVE GCD(_, _)
GCD(a, b) == IF b = 0 THEN a ELSE GCD(b, a % b)

\* n/d as a float: x/0 is an infinity, 0/0 is NaN (no exception is raised)
Frac(n, d) ==
    IF d = 0
    THEN IF n = 0 THEN NaN ELSE <<IF n > 0 THEN 1 ELSE -1, 0>>
    ELSE LET s == IF d < 0 THEN -1 ELSE 1
             g == GCD(Abs(n), Abs(d))
         IN  <<(s * n) \div g, (s * d) \div g>>

Float(n) == <<n, 1>>

FAdd(a, b) == IF isna(a) \/ isna(b) THEN NaN
              ELSE Frac(a[1] * b[2] + b[1] * a[2], a[2] * b[2])

FSub(a, b) == IF isna(a) \/ isna(b) THEN NaN
              ELSE Frac(a[1] * b[2] - b[1] * a[2], a[2] * b[2])

FMul(a, b) == IF isna(a) \/ isna(b) THEN NaN
              ELSE Frac(a[1] * b[1], a[2] * b[2])

FDiv(a, b) == IF isna(a) \/ isna(b) THEN NaN
              ELSE Frac(a[1] * b[2], a[2] * b[1])

FAbs(a) == IF isna(a) THEN NaN ELSE <<Abs(a[1]), a[2]>>

\* every comparison with NaN is False
FGt(a, b) == ~isna(a) /\ ~isna(b) /\ a[1] * b[2] > b[1] * a[2]

FLt(a, b) == FGt(b, a)

(***************************************************************************)
(* pandas Series reductions, all with skipna=True as the source calls them *)
(***************************************************************************)
\* the values of a Series, in order
values(Q) == [i \in 1..Len(Q) |-> Q[i].Discharge]

notna(v) == SelectSeq(v, LAMBDA x : ~isna(x))

RECURSIVE SumSeq(_)
SumSeq(v) == IF v = << >> THEN Float(0) ELSE FAdd(v[1], SumSeq(Tail(v)))

\* Series.sum(): NaN skipped, the sum of nothing is 0
sum(Q) == SumSeq(notna(values(Q)))

\* Series.mean(): NaN skipped, the mean of nothing is NaN
mean(Q) == LET v == notna(values(Q))
           IN  IF v = << >> THEN NaN ELSE FDiv(SumSeq(v), Float(Len(v)))

RECURSIVE Insert(_, _)
Insert(x, s) == IF s = << >> THEN <<x>>
                ELSE IF FGt(x, s[1]) THEN <<s[1]>> \o Insert(x, Tail(s))
                ELSE <<x>> \o s

RECURSIVE Sort(_)
Sort(v) == IF v = << >> THEN << >> ELSE Insert(v[1], Sort(Tail(v)))

\* Series.median(): NaN skipped, middle of the sorted values (mean of the
\* two middle ones when their number is even), NaN for no value
median(Q) == LET s == Sort(notna(values(Q)))
                 n == Len(s)
             IN  IF n = 0 THEN NaN
                 ELSE IF n % 2 = 1 THEN s[(n + 1) \div 2]
                 ELSE FDiv(FAdd(s[n \div 2], s[n \div 2 + 1]), Float(2))

\* Series > scalar: element-wise, False where either side is NaN
gt(Q, x) == [i \in 1..Len(Q) |-> FGt(Q[i].Discharge, x)]

\* sum of a boolean Series: the number of True
CountTrue(b) == Cardinality({i \in 1..Len(b) : b[i]})

RECURSIVE MinSeq(_)
MinSeq(v) == IF v = << >> THEN NaN
             ELSE LET m == MinSeq(Tail(v))
                  IN  IF isna(m) \/ FLt(v[1], m) THEN v[1] ELSE m

\* Series.min(): NaN skipped, NaN for no value
min(v) == MinSeq(notna(v))

RECURSIVE MaxSeq(_)
MaxSeq(v) == IF v = << >> THEN NaN
             ELSE LET m == MaxSeq(Tail(v))
                  IN  IF isna(m) \/ FGt(v[1], m) THEN v[1] ELSE m

\* Series.max(): NaN skipped, NaN for no value
max(Q) == MaxSeq(notna(values(Q)))

\* Series.rolling(window=w).mean(): at position i the mean of the w
\* observations ending at i; NaN when fewer than w observations end at i or
\* one of them is NaN (min_periods defaults to the window). The window is a
\* number of observations: the dates of the index are not consulted.
rolling_mean(Q, w) ==
    [i \in 1..Len(Q) |->
        IF i < w \/ \E j \in (i - w + 1)..i : isna(Q[j].Discharge) THEN NaN
        ELSE FDiv(SumSeq([k \in 1..w |-> Q[i - w + k].Discharge]), Float(w))]

(***************************************************************************)
(* Metric library                                                          *)
(***************************************************************************)
CalcTqmean(Q) ==
    LET mean_Q == mean(Q)
        index == gt(Q, mean_Q)
    IN  FDiv(Float(CountTrue(index)), Float(Len(Q)))

RECURSIVE PathLength(_, _)
\* the loop of CalcRBindex: for i in range(len(Qvalues)-1), positional
PathLength(Q, i) ==
    IF i >= Len(Q) THEN Float(0)
    ELSE FAdd(FAbs(FSub(Q[i + 1].Discharge, Q[i].Discharge)), PathLength(Q, i + 1))

CalcRBindex(Q) ==
    LET sum_abs == PathLength(Q, 1)
    IN  FDiv(sum_abs, sum(Q))

Calc7Q(Q) == min(rolling_mean(Q, 7))

\* CalcExceed3TimesMedian with the comparison >= in the place of >
CalcExceed3TimesMedian_GE(Q) ==
    LET x == FMul(Float(3), median(Q))
        index == [i \in 1..Len(Q) |-> ~isna(x) /\ ~isna(Q[i].Discharge)
                                        /\ ~FLt(Q[i].Discharge, x)]
    IN  Float(CountTrue(index))

CalcExceed3TimesMedian(Q) ==
    LET index == gt(Q, FMul(Float(3), median(Q)))
    IN  Float(CountTrue(index))

(***************************************************************************)
(* Metric windows: a window is a Series with strictly increasing dates.    *)
(***************************************************************************)
RECURSIVE SetToSeq(_)
\* the members of a set of integers in increasing order
SetToSeq(S) == IF S = {} THEN << >>
               ELSE LET m == CHOOSE x \in S : \A y \in S : x <= y
                    IN  <<m>> \o SetToSeq(S \ {m})

\* a date of the calendar that the record does not hold
Skip == <<0, 0, 0>>

RECURSIVE Compress(_, _, _)
\* the Series of a day-by-day table g over the dates d..last: one
\* observation for every date that is not skipped, in date order
Compress(g, d, last) ==
    IF d > last THEN << >>
    ELSE IF g[d] = Skip THEN Compress(g, d + 1, last)
    ELSE <<[Date |-> d, Discharge |-> g[d]]>> \o Compress(g, d + 1, last)

QSet == {NaN} \cup {Float(q) : q \in 0..MaxQ}

Q7Set == {NaN} \cup {Float(q) : q \in 1..MaxQ7}

Idle == /\ raw = << >>
        /\ DataDF = << >>
        /\ MissingValues = 0
        /\ WYDataDF = << >>
        /\ MoDataDF = << >>
        /\ MonthlyAverages = << >>
        /\ err = "none"

InitMetric == /\ Idle
              /\ \E g \in [1..MaxDay -> QSet \cup {Skip}] :
                    Qvalues = Compress(g, 1, MaxDay)
              /\ result = NaN
              /\ pc = "window"

Frame == UNCHANGED <<raw, DataDF, MissingValues, WYDataDF, MoDataDF,
                     MonthlyAverages, Qvalues, err>>

DoCalcTqmean == /\ pc = "window"
                /\ result' = CalcTqmean(Qvalues)
                /\ pc' = "CalcTqmean"
                /\ Frame

DoCalcRBindex == /\ pc = "window"
                 /\ result' = CalcRBindex(Qvalues)
                 /\ pc' = "CalcRBindex"
                 /\ Frame

DoCalc7Q == /\ pc = "window"
            /\ result' = Calc7Q(Qvalues)
            /\ pc' = "Calc7Q"
            /\ Frame

DoCalcExceed3TimesMedian == /\ pc = "window"
                            /\ result' = CalcExceed3TimesMedian(Qvalues)
                            /\ pc' = "CalcExceed3TimesMedian"
                            /\ Frame

NextMetric == \/ DoCalcTqmean
              \/ DoCalcRBindex
              \/ DoCalc7Q
              \/ DoCalcExceed3TimesMedian

SpecMetric == InitMetric /\ [][NextMetric]_vars

Init7Q == /\ Idle
          /\ \E g \in [1..(7 + ExtraDays) -> Q7Set \cup {Skip}] :
                /\ Cardinality({d \in DOMAIN g : g[d] = Skip}) <= 2
                /\ Qvalues = Compress(g, 1, 7 + ExtraDays)
          /\ result = NaN
          /\ pc = "window"

Next7Q == DoCalc7Q

Spec7Q == Init7Q /\ [][Next7Q]_vars

(***************************************************************************)
(* Calendar                                                                *)
(***************************************************************************)
\* the day ordinal of year y, month m (1..12), day d (1..DaysPerMonth)
DateOf(y, m, d) == (y * 12 + (m - 1)) * DaysPerMonth + (d - 1)

MonthIndex(date) == date \div DaysPerMonth

Year(date) == MonthIndex(date) \div 12

\* x.month of a timestamp: the calendar month number 1..12
Month(date) == (MonthIndex(date) % 12) + 1

\* the water year a date belongs to: Oct 1 of Y-1 .. Sep 30 of Y is Y
WaterYear(date) == IF Month(date) >= 10 THEN Year(date) + 1 ELSE Year(date)

\* DataDF[startDate:endDate]: the rows of a date-sorted frame whose date
\* lies in the inclusive range
Slice(DF, startDate, endDate) ==
    SelectSeq(DF, LAMBDA r : startDate <= r.Date /\ r.Date <= endDate)

(***************************************************************************)
(* Loader                                                                  *)
(***************************************************************************)
CountNa(DF) == Cardinality({i \in 1..Len(DF) : isna(DF[i].Discharge)})

\* ReadData after read_csv has parsed the record into rows: the rows with a
\* discharge below zero are filtered out of the frame, then the NaN of the
\* rows that are left are counted
ReadData(rows) ==
    LET DF == SelectSeq(rows, LAMBDA r : ~FLt(r.Discharge, Float(0)))
    IN  [DataDF |-> DF, MissingValues |-> CountNa(DF)]

ClipData(DF, startDate, endDate) ==
    LET clipped == Slice(DF, startDate, endDate)
    IN  [DataDF |-> clipped, MissingValues |-> CountNa(clipped)]

(***************************************************************************)
(* Water-year aggregator                                                   *)
(***************************************************************************)
start_Year == 1970
end_Year == 2020

\* range(start_Year, end_Year)
WYrange == start_Year..(end_Year - 1)

\* DataDF['Discharge'][str(WY-1)+"-10-01":str(WY)+"-09-30"]
WYWindow(DF, WY) == Slice(DF, DateOf(WY - 1, 10, 1), DateOf(WY, 9, DaysPerMonth))

\* the metric columns of one water-year row (Coeff Var and Skew, which need
\* roots, are not carried)
AnnualRow(label, W) ==
    [Date |-> label,
     MeanFlow |-> mean(W),
     PeakFlow |-> max(W),
     Median |-> median(W),
     TQmean |-> CalcTqmean(W),
     RBIndex |-> CalcRBindex(W),
     Q7 |-> Calc7Q(W),
     Median3x |-> CalcExceed3TimesMedian(W)]

\* DataDF.resample('AS-OCT').mean().index: one label, the Oct 1 starting
\* the bin, for every year-long bin from the one holding the first row to
\* the one holding the last row (bins without rows included)
ResampleOct(DF) ==
    IF DF = << >> THEN << >>
    ELSE LET yf == WaterYear(DF[1].Date)
             yl == WaterYear(DF[Len(DF)].Date)
         IN  [i \in 1..(yl - yf + 1) |-> DateOf(yf + i - 2, 10, 1)]

\* GetAnnualStatistics: err names the exception raised, if any
\*   IndexError: DataDF['site_no'][0] on a frame without rows
\*   ValueError: the resampled index, assigned to the frame of
\*               len(WYrange) rows, has another length
GetAnnualStatistics(DF) ==
    LET index == ResampleOct(DF)
    IN  IF DF = << >> THEN [err |-> "IndexError", table |-> << >>]
        ELSE IF Len(index) # end_Year - start_Year
        THEN [err |-> "ValueError", table |-> << >>]
        ELSE [err |-> "none",
              table |-> [i \in 1..Len(index) |->
                            AnnualRow(index[i], WYWindow(DF, start_Year + i - 1))]]

(***************************************************************************)
(* Monthly aggregator                                                      *)
(***************************************************************************)
\* the rows of calendar month number mi (months counted from year 0)
MonthWindow(DF, mi) ==
    SelectSeq(DF, LAMBDA r : MonthIndex(r.Date) = mi)

\* DataDF.resample('MS'): one bin for every calendar month from the month
\* of the first row to the month of the last row, labelled by its first day
ResampleMS(DF) ==
    IF DF = << >> THEN << >>
    ELSE LET mf == MonthIndex(DF[1].Date)
             ml == MonthIndex(DF[Len(DF)].Date)
         IN  [i \in 1..(ml - mf + 1) |-> mf + i - 1]

\* the metric columns of one monthly row (Coeff Var is not carried)
MonthlyRow(mi, W) ==
    [Date |-> mi * DaysPerMonth,
     MeanFlow |-> mean(W),
     TQmean |-> CalcTqmean(W),
     RBIndex |-> CalcRBindex(W)]

GetMonthlyStatistics(DF) ==
    LET index == ResampleMS(DF)
    IN  IF DF = << >> THEN [err |-> "IndexError", table |-> << >>]
        ELSE [err |-> "none",
              table |-> [i \in 1..Len(index) |->
                            MonthlyRow(index[i], MonthWindow(DF, index[i]))]]

(***************************************************************************)
(* Long-run averager: the monthly reducer                                  *)
(***************************************************************************)
\* ColumnMean dividing by the number of rows of the group, NaN included
ColumnMean_AllRows(v) == IF v = << >> THEN NaN
                         ELSE FDiv(SumSeq(notna(v)), Float(Len(v)))

\* the mean of a column of a group: NaN skipped, NaN for no value
ColumnMean(v) == LET w == notna(v)
                 IN  IF w = << >> THEN NaN ELSE FDiv(SumSeq(w), Float(Len(w)))

\* MoDataDF.groupby(lambda x: x.month).mean(): one row for every month
\* number occurring in the index, in increasing order of the month number
GetMonthlyAverages(Mo) ==
    LET keys == {Month(Mo[i].Date) : i \in 1..Len(Mo)}
        group(m) == SelectSeq(Mo, LAMBDA r : Month(r.Date) = m)
        row(m) == LET g == group(m)
                  IN  [Date |-> m,
                       MeanFlow |-> ColumnMean([i \in 1..Len(g) |-> g[i].MeanFlow]),
                       TQmean |-> ColumnMean([i \in 1..Len(g) |-> g[i].TQmean]),
                       RBIndex |-> ColumnMean([i \in 1..Len(g) |-> g[i].RBIndex])]
        order == SetToSeq(keys)
    IN  [i \in 1..Len(order) |-> row(order[i])]

(***************************************************************************)
(* The pipeline of the main routine on one raw record:                     *)
(* ReadData, ClipData, GetAnnualStatistics, GetMonthlyStatistics,          *)
(* GetMonthlyAverages. An exception ends it.                               *)
(***************************************************************************)
\* the dates a raw record may hold: around both ends of the period
RecordDates == {DateOf(start_Year - 1, 10, 1),
                DateOf(start_Year, 10, 1),
                DateOf(end_Year - 1, 9, DaysPerMonth),
                DateOf(end_Year - 1, 10, 1)}

RawQSet == {NaN} \cup {Float(q) : q \in (-1)..MaxRawQ}

RECURSIVE CompressOver(_, _)
\* the record of a table g over a set of dates D, in date order
CompressOver(g, D) ==
    IF D = {} THEN << >>
    ELSE LET d == CHOOSE x \in D : \A y \in D : x <= y
         IN  IF g[d] = Skip THEN CompressOver(g, D \ {d})
             ELSE <<[Date |-> d, Discharge |-> g[d]]>> \o CompressOver(g, D \ {d})

\* the period main clips to ('1969-10-01', '2019-09-30'), and a period
\* holding every date of the record (a caller that keeps the whole record)
ClipRanges == {<<DateOf(1969, 10, 1), DateOf(2019, 9, DaysPerMonth)>>,
               <<DateOf(0, 1, 1), DateOf(end_Year + 1, 1, 1)>>}

InitSeries == /\ \E g \in [RecordDates -> RawQSet \cup {Skip}] :
                    raw = CompressOver(g, RecordDates)
              /\ DataDF = << >>
              /\ MissingValues = 0
              /\ WYDataDF = << >>
              /\ MoDataDF = << >>
              /\ MonthlyAverages = << >>
              /\ Qvalues = << >>
              /\ result = NaN
              /\ pc = "raw"
              /\ err = "none"

DoReadData ==
    /\ pc = "raw"
    /\ LET r == ReadData(raw)
       IN  /\ DataDF' = r.DataDF
           /\ MissingValues' = r.MissingValues
    /\ pc' = "read"
    /\ UNCHANGED <<raw, WYDataDF, MoDataDF, MonthlyAverages, Qvalues, result, err>>

DoClipData ==
    /\ pc = "read"
    /\ \E range \in ClipRanges :
          LET r == ClipData(DataDF, range[1], range[2])
          IN  /\ DataDF' = r.DataDF
              /\ MissingValues' = r.MissingValues
    /\ pc' = "clipped"
    /\ UNCHANGED <<raw, WYDataDF, MoDataDF, MonthlyAverages, Qvalues, result, err>>

DoGetAnnualStatistics ==
    /\ pc = "clipped"
    /\ LET r == GetAnnualStatistics(DataDF)
       IN  /\ WYDataDF' = r.table
           /\ err' = r.err
           /\ pc' = IF r.err = "none" THEN "annual" ELSE "annual raised"
    /\ UNCHANGED <<raw, DataDF, MissingValues, MoDataDF, MonthlyAverages, Qvalues, result>>

\* main calls it after GetAnnualStatistics; a caller of the library may
\* call it on the clipped frame directly
DoGetMonthlyStatistics ==
    /\ pc \in {"clipped", "annual"}
    /\ LET r == GetMonthlyStatistics(DataDF)
       IN  /\ MoDataDF' = r.table
           /\ err' = r.err
           /\ pc' = IF r.err = "none" THEN "monthly" ELSE "monthly raised"
    /\ UNCHANGED <<raw, DataDF, MissingValues, WYDataDF, MonthlyAverages, Qvalues, result>>

DoGetMonthlyAverages ==
    /\ pc = "monthly"
    /\ MonthlyAverages' = GetMonthlyAverages(MoDataDF)
    /\ pc' = "averaged"
    /\ UNCHANGED <<raw, DataDF, MissingValues, WYDataDF, MoDataDF, Qvalues, result, err>>

NextSeries == \/ DoReadData
              \/ DoClipData
              \/ DoGetAnnualStatistics
              \/ DoGetMonthlyStatistics
              \/ DoGetMonthlyAverages

SpecSeries == InitSeries /\ [][NextSeries]_vars

(***************************************************************************)
(* What the claims say of a window, stated on its calendar and its         *)
(* present values, independently of the operators above.                   *)
(***************************************************************************)
\* positions of the present (not absent) values of window W
Present(W) == {i \in 1..Len(W) : W[i].Discharge # NaN}

\* the value at a present position of a window of whole numbers
Val(W, i) == W[i].Discharge[1]

RECURSIVE SumOver(_, _)
SumOver(W, P) == IF P = {} THEN 0
                 ELSE LET i == CHOOSE j \in P : TRUE
                      IN  Val(W, i) + SumOver(W, P \ {i})

\* pairs of positions holding present values of consecutive calendar days
DayPairs(W) == {p \in Present(W) \X Present(W) : W[p[2]].Date = W[p[1]].Date + 1}

RECURSIVE SumDiffs(_, _)
SumDiffs(W, S) == IF S = {} THEN 0
                  ELSE LET p == CHOOSE x \in S : TRUE
                       IN  Abs(Val(W, p[2]) - Val(W, p[1])) + SumDiffs(W, S \ {p})

\* the positions of the k calendar days starting at date s, when the window
\* holds a present value for each of them
RunAt(W, s, k) == {i \in Present(W) : W[i].Date \in s..(s + k - 1)}

RunStarts(W, k) == {s \in {W[i].Date : i \in 1..Len(W)} :
                        Cardinality(RunAt(W, s, k)) = k}

RunMean(W, s, k) == Frac(SumOver(W, RunAt(W, s, k)), k)

\* twice the median of the present values, by rank: the k-th smallest is
\* the value with fewer than k values below it and at least k not above it
Ranked(W, k) == CHOOSE v \in {Val(W, i) : i \in Present(W)} :
                    /\ Cardinality({i \in Present(W) : Val(W, i) < v}) < k
                    /\ Cardinality({i \in Present(W) : Val(W, i) <= v}) >= k

TwiceMedian(W) == LET n == Cardinality(Present(W))
                  IN  IF n % 2 = 1 THEN 2 * Ranked(W, (n + 1) \div 2)
                      ELSE Ranked(W, n \div 2) + Ranked(W, n \div 2 + 1)

\* C1: for a window with at least one present value, CalcTqmean is the
\* number of present values strictly above the mean of the present values,
\* divided by the number of present values.
C1_TqmeanOverPresent ==
    (pc = "CalcTqmean" /\ Present(Qvalues) # {}) =>
        LET P == Present(Qvalues)
            n == Cardinality(P)
        IN  result = Frac(Cardinality({i \in P : Val(Qvalues, i) * n > SumOver(Qvalues, P)}), n)

\* C2: for a window with at least two present values and a non-zero sum,
\* CalcRBindex is the sum of |q(d+1) - q(d)| over the pairs of consecutive
\* calendar days that both hold a present value, divided by the sum of the
\* present values.
C2_RBindexOverDayPairs ==
    (/\ pc = "CalcRBindex"
     /\ Cardinality(Present(Qvalues)) >= 2
     /\ SumOver(Qvalues, Present(Qvalues)) # 0) =>
        result = Frac(SumDiffs(Qvalues, DayPairs(Qvalues)),
                      SumOver(Qvalues, Present(Qvalues)))

\* C3: Calc7Q is the minimum of the means of all runs of 7 consecutive
\* calendar days that all hold a present value, and NaN when the window has
\* no such run.
C3_7QOverCalendarRuns ==
    pc = "Calc7Q" =>
        LET S == RunStarts(Qvalues, 7)
        IN  IF S = {} THEN result = NaN
            ELSE /\ \E s \in S : result = RunMean(Qvalues, s, 7)
                 /\ \A s \in S : ~FGt(result, RunMean(Qvalues, s, 7))

\* C4: for a window with at least one present value,
\* CalcExceed3TimesMedian is the number of present values strictly greater
\* than 3 times the median of the present values; it is 0 when the present
\* values are all equal (and non-negative).
C4_Exceed3TimesMedian ==
    (pc = "CalcExceed3TimesMedian" /\ Present(Qvalues) # {}) =>
        LET P == Present(Qvalues)
        IN  /\ result = Float(Cardinality({i \in P :
                                2 * Val(Qvalues, i) > 3 * TwiceMedian(Qvalues)}))
            /\ (\A i, j \in P : Val(Qvalues, i) = Val(Qvalues, j)) => result = Float(0)

\* a window with an absent value, an even number of present values and a
\* present value above 3 times their median, after CalcExceed3TimesMedian
C4_Witness ==
    /\ pc = "CalcExceed3TimesMedian"
    /\ Cardinality(Present(Qvalues)) = 4
    /\ Len(Qvalues) = 5
    /\ TwiceMedian(Qvalues) = 1
    /\ result = Float(1)

\* C5: for a window whose values are all absent (of any length, the empty
\* window included), every metric function returns NaN.
C5_AllAbsentIsNaN ==
    (pc # "window" /\ Present(Qvalues) = {}) => result = NaN

\* C10: for a window with fewer than 2 present values, CalcRBindex is NaN.
C10_RBindexFewerThanTwo ==
    (pc = "CalcRBindex" /\ Cardinality(Present(Qvalues)) < 2) => result = NaN

(***************************************************************************)
(* What the claims say of the loader, the aggregators and the reducer.     *)
(***************************************************************************)
DatesOf(DF) == {DF[i].Date : i \in 1..Len(DF)}

\* C9: ReadData keeps every date of the raw record: an observation with a
\* discharge below zero stays at its date with its discharge absent and is
\* counted in the missing-value count.
C9_ReadDataKeepsDates ==
    pc = "read" =>
        /\ DatesOf(DataDF) = DatesOf(raw)
        /\ \A i \in 1..Len(raw) : FLt(raw[i].Discharge, Float(0)) =>
              \E j \in 1..Len(DataDF) : /\ DataDF[j].Date = raw[i].Date
                                        /\ isna(DataDF[j].Discharge)
        /\ MissingValues = Cardinality({i \in 1..Len(raw) :
                                \/ isna(raw[i].Discharge)
                                \/ FLt(raw[i].Discharge, Float(0))})

\* C6: a table returned by GetAnnualStatistics holds exactly one row for
\* each water year Y spanned by the series, in increasing order of Y, and
\* the row labelled Oct 1 of Y-1 holds the metrics of the window of Y.
C6_AnnualRowsMatchLabels ==
    pc = "annual" =>
        LET yf == WaterYear(DataDF[1].Date)
            yl == WaterYear(DataDF[Len(DataDF)].Date)
        IN  /\ Len(WYDataDF) = yl - yf + 1
            /\ \A i \in 1..Len(WYDataDF) :
                  WYDataDF[i] = AnnualRow(DateOf(yf + i - 2, 10, 1),
                                          WYWindow(DataDF, yf + i - 1))

\* C7: GetAnnualStatistics and GetMonthlyStatistics never raise because of
\* missing or insufficient data.
C7_AggregatorsNeverRaise == err = "none"

\* the rows of month number m of a per-month table whose column c is a number
GroupOf(Mo, m, c) == {i \in 1..Len(Mo) : Month(Mo[i].Date) = m /\ ~isna(Mo[i][c])}

RECURSIVE ColumnSum(_, _, _)
ColumnSum(Mo, I, c) == IF I = {} THEN Float(0)
                       ELSE LET i == CHOOSE j \in I : TRUE
                            IN  FAdd(Mo[i][c], ColumnSum(Mo, I \ {i}, c))

\* the mean of the non-NaN values of column c over the rows of month m
GroupMean(Mo, m, c) ==
    LET I == GroupOf(Mo, m, c)
    IN  IF I = {} THEN NaN ELSE FDiv(ColumnSum(Mo, I, c), Float(Cardinality(I)))

MonthlyColumns == {"MeanFlow", "TQmean", "RBIndex"}

\* C8 as stated: GetMonthlyAverages returns exactly 12 rows, one per
\* calendar month number 1..12 in that order, each holding per column the
\* mean of the non-NaN values of the input rows of that month.
C8_TwelveRows ==
    pc = "averaged" =>
        /\ Len(MonthlyAverages) = 12
        /\ \A m \in 1..Len(MonthlyAverages) :
              /\ MonthlyAverages[m].Date = m
              /\ \A c \in MonthlyColumns :
                    MonthlyAverages[m][c] = GroupMean(MoDataDF, m, c)

\* C8 amended: GetMonthlyAverages returns exactly one row for each calendar
\* month number occurring in the input table (12 rows, for 1..12, when every
\* calendar month occurs), in increasing order of the month number, each
\* holding per column the mean of the non-NaN values of the input rows of
\* that month.
C8_OneRowPerMonthPresent ==
    pc = "averaged" =>
        LET months == {Month(MoDataDF[i].Date) : i \in 1..Len(MoDataDF)}
        IN  /\ {MonthlyAverages[k].Date : k \in 1..Len(MonthlyAverages)} = months
            /\ Len(MonthlyAverages) = Cardinality(months)
            /\ \A k \in 1..(Len(MonthlyAverages) - 1) :
                  MonthlyAverages[k].Date < MonthlyAverages[k + 1].Date
            /\ \A k \in 1..Len(MonthlyAverages) : \A c \in MonthlyColumns :
                  MonthlyAverages[k][c] =
                      GroupMean(MoDataDF, MonthlyAverages[k].Date, c)
            /\ months = 1..12 =>
                  \A m \in 1..12 : MonthlyAverages[m].Date = m

\* a table of at least 24 months reduced to 12 rows, in which the October
\* group holds exactly two numbers, 0 and 1, whose mean is 1/2
C8_Witness ==
    /\ pc = "averaged"
    /\ Len(MoDataDF) >= 24
    /\ Len(MonthlyAverages) = 12
    /\ Cardinality(GroupOf(MoDataDF, 10, "MeanFlow")) = 2
    /\ MonthlyAverages[10].MeanFlow = <<1, 2>>

====
